---- MODULE Spec2Model ----
(***************************************************************************)
(* Model of the build scripts of the material-design-icons repository:     *)
(*   - iconfont/iconjar-map.js        (standalone catalog converter)       *)
(*   - the script in sketch/README.md (standalone catalog converter)       *)
(*   - the gulpfile (tasks png-sprites, svg-sprites, iconjar, default)     *)
(* Text is modelled as sequences of one-character strings, so that the     *)
(* regular expressions and string methods of the scripts are computed      *)
(* character by character.                                                 *)
(***************************************************************************)
EXTENDS Integers, Sequences, FiniteSets, TLC

(***************************************************************************)
(* Characters and character classes of the JavaScript regular expressions. *)
(***************************************************************************)
LowerSeq ==
  <<"a", "b", "c", "d", "e", "f", "g", "h", "i", "j", "k", "l", "m",
    "n", "o", "p", "q", "r", "s", "t", "u", "v", "w", "x", "y", "z">>

UpperSeq ==
  <<"A", "B", "C", "D", "E", "F", "G", "H", "I", "J", "K", "L", "M",
    "N", "O", "P", "Q", "R", "S", "T", "U", "V", "W", "X", "Y", "Z">>

DigitSeq ==
  <<"0", "1", "2", "3", "4", "5", "6", "7", "8", "9">>

Range(s) ==
  {s[i] : i \in 1..Len(s)}

Lower ==
  Range(LowerSeq)

Upper ==
  Range(UpperSeq)

Digit ==
  Range(DigitSeq)

\* \s
IsSpace(c) ==
  c \in {" ", "\t", "\n", "\r"}

\* . (any character but a line terminator)
IsDot(c) ==
  c \notin {"\n", "\r"}

\* [a-f0-9] under the i flag
IsHex(c) ==
  c \in Digit \cup {"a", "b", "c", "d", "e", "f", "A", "B", "C", "D", "E", "F"}

\* [a-z] under the i flag
IsLetter(c) ==
  c \in Lower \cup Upper

\* [0-9a-z] under the i flag
IsAlnum(c) ==
  c \in Lower \cup Upper \cup Digit

\* \w
IsWord(c) ==
  c \in Lower \cup Upper \cup Digit \cup {"_"}

IndexIn(s, c) ==
  CHOOSE i \in 1..Len(s) : s[i] = c

ToLowerChar(c) ==
  IF c \in Upper THEN LowerSeq[IndexIn(UpperSeq, c)] ELSE c

ToUpperChar(c) ==
  IF c \in Lower THEN UpperSeq[IndexIn(LowerSeq, c)] ELSE c

\* String.prototype.toLowerCase
ToLowerCase(s) ==
  [i \in 1..Len(s) |-> ToLowerChar(s[i])]

RECURSIVE TrimLeft(_)
TrimLeft(s) ==
  IF s # <<>> /\ IsSpace(Head(s)) THEN TrimLeft(Tail(s)) ELSE s

RECURSIVE TrimRight(_)
TrimRight(s) ==
  IF s # <<>> /\ IsSpace(s[Len(s)])
    THEN TrimRight(SubSeq(s, 1, Len(s) - 1))
    ELSE s

\* String.prototype.trim
Trim(s) ==
  TrimRight(TrimLeft(s))

\* String.prototype.split with a one-character separator
RECURSIVE SplitAcc(_, _, _)
SplitAcc(s, sep, cur) ==
  IF s = <<>> THEN <<cur>>
  ELSE IF Head(s) = sep THEN <<cur>> \o SplitAcc(Tail(s), sep, <<>>)
  ELSE SplitAcc(Tail(s), sep, Append(cur, Head(s)))

Split(s, sep) ==
  SplitAcc(s, sep, <<>>)

\* String.prototype.replace(/[^a-z]+/gi, ' '): every maximal run of
\* characters that are no letters becomes one space
RECURSIVE ReplaceNonLetterRuns(_)
ReplaceNonLetterRuns(s) ==
  IF s = <<>> THEN <<>>
  ELSE IF IsLetter(Head(s)) THEN <<Head(s)>> \o ReplaceNonLetterRuns(Tail(s))
  ELSE IF Len(s) > 1 /\ ~IsLetter(s[2]) THEN ReplaceNonLetterRuns(Tail(s))
  ELSE <<" ">> \o ReplaceNonLetterRuns(Tail(s))

\* String.prototype.replace(/[^0-9a-z]+/gi, ' ')
RECURSIVE ReplaceNonAlnumRuns(_)
ReplaceNonAlnumRuns(s) ==
  IF s = <<>> THEN <<>>
  ELSE IF IsAlnum(Head(s)) THEN <<Head(s)>> \o ReplaceNonAlnumRuns(Tail(s))
  ELSE IF Len(s) > 1 /\ ~IsAlnum(s[2]) THEN ReplaceNonAlnumRuns(Tail(s))
  ELSE <<" ">> \o ReplaceNonAlnumRuns(Tail(s))

\* String.prototype.replace(/\b[a-z]/g, char => char.toUpperCase()): a lower
\* case letter at a word boundary (at the start, or after a non-word
\* character) is upper-cased
UpperAtWordStart(s) ==
  [i \in 1..Len(s) |->
     IF s[i] \in Lower /\ (i = 1 \/ ~IsWord(s[i - 1]))
       THEN ToUpperChar(s[i])
       ELSE s[i]]

(***************************************************************************)
(* JavaScript values: strings and plain objects.  An object is the list of *)
(* its own properties in the order JSON.stringify and for-in enumerate     *)
(* them: array-index keys first, in ascending numeric order, then the      *)
(* other keys in the order they were created.                              *)
(***************************************************************************)
Str(s) ==
  [type |-> "string", chars |-> s]

Obj(props) ==
  [type |-> "object", props |-> props]

Prop(k, v) ==
  [key |-> k, value |-> v]

Null ==
  [type |-> "null"]

UndefinedText ==
  <<"u", "n", "d", "e", "f", "i", "n", "e", "d">>

NullText ==
  <<"n", "u", "l", "l">>


\* null is written as the empty text
ToTextNullEmpty(v) ==
  IF v.type = "null" THEN <<>> ELSE v.chars

\* ToString of a string or of null
ToText(v) ==
  IF v.type = "null" THEN NullText ELSE v.chars

\* ToString of the array element a[i], which is undefined past the end
ElementText(a, i) ==
  IF i <= Len(a) THEN a[i] ELSE UndefinedText

MaxArrayIndexText ==
  <<"4", "2", "9", "4", "9", "6", "7", "2", "9", "5">>

DigitValue(c) ==
  IndexIn(DigitSeq, c) - 1

\* a < b for two digit strings of the same length
RECURSIVE DigitsLess(_, _)
DigitsLess(a, b) ==
  IF a = <<>> THEN FALSE
  ELSE IF DigitValue(Head(a)) # DigitValue(Head(b))
    THEN DigitValue(Head(a)) < DigitValue(Head(b))
  ELSE DigitsLess(Tail(a), Tail(b))

\* a < b for two canonical decimal numerals
NumeralLess(a, b) ==
  \/ Len(a) < Len(b)
  \/ Len(a) = Len(b) /\ DigitsLess(a, b)

\* A property key is an array index when it is the canonical decimal numeral
\* of an integer in 0 .. 2^32 - 2
IsArrayIndex(k) ==
  /\ k # <<>>
  /\ \A i \in 1..Len(k) : k[i] \in Digit
  /\ (Len(k) > 1 => k[1] # "0")
  /\ NumeralLess(k, MaxArrayIndexText)

HasProperty(o, k) ==
  \E i \in 1..Len(o.props) : o.props[i].key = k

Get(o, k) ==
  o.props[CHOOSE i \in 1..Len(o.props) : o.props[i].key = k].value

InsertAt(s, i, e) ==
  SubSeq(s, 1, i - 1) \o <<e>> \o SubSeq(s, i, Len(s))

\* o[k] = v: an existing property keeps its place; a new array-index key is
\* placed among the array-index keys by value, any other new key goes last
Set(o, k, v) ==
  IF HasProperty(o, k)
    THEN Obj([i \in 1..Len(o.props) |->
                IF o.props[i].key = k THEN Prop(k, v) ELSE o.props[i]])
  ELSE IF IsArrayIndex(k)
    THEN Obj(InsertAt(o.props,
                      1 + Cardinality({i \in 1..Len(o.props) :
                                         /\ IsArrayIndex(o.props[i].key)
                                         /\ NumeralLess(o.props[i].key, k)}),
                      Prop(k, v)))
  ELSE Obj(Append(o.props, Prop(k, v)))

(***************************************************************************)
(* JSON.stringify.  The text is a sequence of tokens: punctuation and      *)
(* quoted strings (the characters between the quotes, escaped).            *)
(***************************************************************************)
Punct(c) ==
  [tok |-> "punct", text |-> <<c>>]

QuoteChar(c) ==
  CASE c = "\"" -> <<"\\", "\"">>
    [] c = "\\" -> <<"\\", "\\">>
    [] c = "\t" -> <<"\\", "t">>
    [] c = "\n" -> <<"\\", "n">>
    [] c = "\r" -> <<"\\", "r">>
    [] OTHER -> <<c>>

RECURSIVE Quote(_)
Quote(s) ==
  IF s = <<>> THEN <<>> ELSE QuoteChar(Head(s)) \o Quote(Tail(s))

StringToken(s) ==
  [tok |-> "string", text |-> Quote(s)]

RECURSIVE Stringify(_)
RECURSIVE StringifyMembers(_)
StringifyMembers(props) ==
  IF props = <<>> THEN <<>>
  ELSE <<StringToken(props[1].key), Punct(":")>>
       \o Stringify(props[1].value)
       \o (IF Len(props) > 1 THEN <<Punct(",")>> ELSE <<>>)
       \o StringifyMembers(Tail(props))

Stringify(v) ==
  IF v.type = "string"
    THEN <<StringToken(v.chars)>>
    ELSE <<Punct("{")>> \o StringifyMembers(v.props) \o <<Punct("}")>>

(***************************************************************************)
(* iconfont/iconjar-map.js: the outer file name and the 'line' handler.    *)
(***************************************************************************)
LastIndexOf(s, c) ==
  IF \E i \in 1..Len(s) : s[i] = c
    THEN CHOOSE i \in 1..Len(s) :
           s[i] = c /\ \A j \in (i + 1)..Len(s) : s[j] # c
    ELSE 0

\* path.basename
Basename(p) ==
  SubSeq(p, LastIndexOf(p, "/") + 1, Len(p))

\* path.extname: from the last '.' of the base name to its end; empty when
\* there is no '.' or the base name starts with its only '.'
ExtName(p) ==
  LET b == Basename(p)
      d == LastIndexOf(b, ".")
  IN  IF d <= 1 \/ b = <<".", ".">> THEN <<>> ELSE SubSeq(b, d, Len(b))

IsPrefixAt(s, pat, i) ==
  /\ i + Len(pat) - 1 <= Len(s)
  /\ SubSeq(s, i, i + Len(pat) - 1) = pat

\* String.prototype.replace(pattern, replacement) with a string pattern:
\* the first occurrence only
ReplaceFirst(s, pat, rep) ==
  IF \E i \in 1..(Len(s) + 1) : IsPrefixAt(s, pat, i)
    THEN LET at == CHOOSE i \in 1..(Len(s) + 1) :
                     /\ IsPrefixAt(s, pat, i)
                     /\ \A j \in 1..(i - 1) : ~IsPrefixAt(s, pat, j)
         IN  SubSeq(s, 1, at - 1) \o rep \o SubSeq(s, at + Len(pat), Len(s))
    ELSE s

TtfExt ==
  <<".", "t", "t", "f">>

IjmapExt ==
  <<".", "i", "j", "m", "a", "p">>

\* the loop over dirListing: the first entry with extension '.ttf' names the
\* output, and the loop breaks; name stays null when there is none
RECURSIVE ScanDir(_)
ScanDir(listing) ==
  IF listing = <<>> THEN Null
  ELSE IF ExtName(Head(listing)) = TtfExt
    THEN Str(ReplaceFirst(Basename(Head(listing)), ExtName(Head(listing)), <<>>))
  ELSE ScanDir(Tail(listing))

\* the positions j of a \s that a hexadecimal digit follows, reachable from
\* start s through characters that . matches
SeparatorCandidates(line, s) ==
  {j \in s..(Len(line) - 1) :
     /\ IsSpace(line[j])
     /\ IsHex(line[j + 1])
     /\ \A k \in s..(j - 1) : IsDot(line[k])}

SetMin(S) ==
  CHOOSE x \in S : \A y \in S : x <= y

SetMax(S) ==
  CHOOSE x \in S : \A y \in S : x >= y

RECURSIVE HexRun(_)
HexRun(s) ==
  IF s # <<>> /\ IsHex(Head(s)) THEN <<Head(s)>> \o HexRun(Tail(s)) ELSE <<>>

\* line.match(/(.*)\s([a-f0-9]+)/i): the leftmost start, the greedy (.*)
\* ending at the last \s that a hexadecimal digit follows
LineMatch(line) ==
  LET starts == {s \in 1..Len(line) : SeparatorCandidates(line, s) # {}}
  IN  IF starts = {} THEN [found |-> FALSE]
      ELSE LET s == SetMin(starts)
               j == SetMax(SeparatorCandidates(line, s))
           IN  [found |-> TRUE,
                g1 |-> SubSeq(line, s, j - 1),
                g2 |-> HexRun(SubSeq(line, j + 1, Len(line)))]

\* match[1].toLowerCase().replace(/[^a-z]+/gi, ' ').replace(/\b[a-z]/g, ...).trim()
IconfontName(g1) ==
  Trim(UpperAtWordStart(ReplaceNonLetterRuns(ToLowerCase(g1))))


\* {name: name, tags: name}: a record with a second field
NameRecordWithTags(name) ==
  Obj(<<Prop(<<"n", "a", "m", "e">>, Str(name)),
        Prop(<<"t", "a", "g", "s">>, Str(name))>>)

NameRecord(name) ==
  Obj(<<Prop(<<"n", "a", "m", "e">>, Str(name))>>)

IconsKey ==
  <<"i", "c", "o", "n", "s">>

\* var json = {icons:{}}
EmptyJson ==
  Obj(<<Prop(IconsKey, Obj(<<>>))>>)


\* the name of the entry stored before is carried over to the next entry
AssignIconCarryName(j, key, name) ==
  LET icons == Get(j, IconsKey)
  IN  Set(j, IconsKey,
          Set(icons, key,
              IF icons.props = <<>>
                THEN NameRecord(name)
                ELSE icons.props[Len(icons.props)].value))

\* json.icons[key] = {name: name}
AssignIcon(j, key, name) ==
  Set(j, IconsKey, Set(Get(j, IconsKey), key, NameRecord(name)))

\* the 'line' handler; it throws a TypeError when match is null
IconfontLineThrows(line) ==
  ~LineMatch(line).found

IconfontLine(j, line) ==
  LET match == LineMatch(line)
  IN  AssignIcon(j, match.g2, IconfontName(match.g1))

(***************************************************************************)
(* The script of sketch/README.md: the 'line' handler.                     *)
(***************************************************************************)

\* the replacement uses the pattern of iconjar-map.js, /[^a-z]+/gi
SketchNameLettersOnly(token) ==
  UpperAtWordStart(ReplaceNonLetterRuns(Trim(ToLowerCase(token))))

\* nameCodepointPair[0].toLowerCase().trim().replace(/[^0-9a-z]+/gi, ' ')
\*   .replace(/\b[a-z]/g, ...)
SketchName(token) ==
  UpperAtWordStart(ReplaceNonAlnumRuns(Trim(ToLowerCase(token))))

SketchLine(j, line) ==
  LET nameCodepointPair == Split(line, " ")
  IN  AssignIcon(j, ElementText(nameCodepointPair, 2),
                 SketchName(nameCodepointPair[1]))

\* var MAP_FILE_NAME = 'MaterialIcons-Regular.ijmap'
MAP_FILE_NAME ==
  <<"M", "a", "t", "e", "r", "i", "a", "l", "I", "c", "o", "n", "s", "-",
    "R", "e", "g", "u", "l", "a", "r", ".", "i", "j", "m", "a", "p">>

(***************************************************************************)
(* The gulpfile: generateIjmap / codepointsToIjmap.  humanize and titleize *)
(* are the functions of underscore.string the gulpfile imports:            *)
(*   underscored(s) = trim(s).replace(/([a-z\d])([A-Z]+)/g, '$1_$2')       *)
(*                           .replace(/[-\s]+/g, '_').toLowerCase()        *)
(*   humanize(s)    = capitalize(trim(underscored(s).replace(/_id$/, '')   *)
(*                                                  .replace(/_/g, ' ')))  *)
(*   titleize(s)    = s.toLowerCase().replace(/(?:^|\s|-)\S/g, upper)      *)
(***************************************************************************)
RECURSIVE CamelToUnderscore(_)
CamelToUnderscore(s) ==
  IF s = <<>> THEN <<>>
  ELSE IF Len(s) > 1 /\ s[1] \in Lower \cup Digit /\ s[2] \in Upper
    THEN <<s[1], "_">> \o CamelToUnderscore(Tail(s))
  ELSE <<s[1]>> \o CamelToUnderscore(Tail(s))

IsDashOrSpace(c) ==
  c = "-" \/ IsSpace(c)

RECURSIVE DashSpaceRunsToUnderscore(_)
DashSpaceRunsToUnderscore(s) ==
  IF s = <<>> THEN <<>>
  ELSE IF ~IsDashOrSpace(Head(s))
    THEN <<Head(s)>> \o DashSpaceRunsToUnderscore(Tail(s))
  ELSE IF Len(s) > 1 /\ IsDashOrSpace(s[2])
    THEN DashSpaceRunsToUnderscore(Tail(s))
  ELSE <<"_">> \o DashSpaceRunsToUnderscore(Tail(s))

Underscored(s) ==
  ToLowerCase(DashSpaceRunsToUnderscore(CamelToUnderscore(Trim(s))))

StripIdSuffix(s) ==
  IF Len(s) >= 3 /\ SubSeq(s, Len(s) - 2, Len(s)) = <<"_", "i", "d">>
    THEN SubSeq(s, 1, Len(s) - 3)
    ELSE s

UnderscoresToSpaces(s) ==
  [i \in 1..Len(s) |-> IF s[i] = "_" THEN " " ELSE s[i]]

Capitalize(s) ==
  [i \in 1..Len(s) |-> IF i = 1 THEN ToUpperChar(s[i]) ELSE s[i]]

humanize(s) ==
  Capitalize(Trim(UnderscoresToSpaces(StripIdSuffix(Underscored(s)))))

UpperAt(s, i) ==
  [s EXCEPT ![i] = ToUpperChar(s[i])]

\* the left-to-right scan of /(?:^|\s|-)\S/g from position i
RECURSIVE TitleizeFrom(_, _)
TitleizeFrom(s, i) ==
  IF i > Len(s) THEN s
  ELSE IF i = 1 /\ ~IsSpace(s[1]) THEN TitleizeFrom(UpperAt(s, 1), 2)
  ELSE IF IsDashOrSpace(s[i]) /\ i < Len(s) /\ ~IsSpace(s[i + 1])
    THEN TitleizeFrom(UpperAt(s, i + 1), i + 2)
  ELSE TitleizeFrom(s, i + 1)

titleize(s) ==
  TitleizeFrom(ToLowerCase(s), 1)

\* contents.toString() of a file whose lines all end in a newline
RECURSIVE FileText(_)
FileText(lines) ==
  IF lines = <<>> THEN <<>>
  ELSE Head(lines) \o <<"\n">> \o FileText(Tail(lines))

\* .reject(_.isEmpty)
RECURSIVE RejectEmpty(_)
RejectEmpty(lines) ==
  IF lines = <<>> THEN <<>>
  ELSE IF Head(lines) = <<>> THEN RejectEmpty(Tail(lines))
  ELSE <<Head(lines)>> \o RejectEmpty(Tail(lines))


\* a codepoint that is already in the map keeps the entry it has
ReduceStepKeepFirst(codepointMap, line) ==
  LET parts == Split(line, " ")
  IN  IF HasProperty(codepointMap, ElementText(parts, 2))
        THEN codepointMap
        ELSE Set(codepointMap, ElementText(parts, 2),
                 NameRecord(titleize(humanize(parts[1]))))

\* one step of the reduce: let [name, codepoint] = line.split(' ');
\* codepointMap[codepoint] = { name: titleize(humanize(name)) }
GulpReduceStep(codepointMap, line) ==
  LET parts == Split(line, " ")
  IN  Set(codepointMap, ElementText(parts, 2),
          NameRecord(titleize(humanize(parts[1]))))

RECURSIVE Reduce(_, _)
Reduce(lines, acc) ==
  IF lines = <<>> THEN acc
  ELSE Reduce(Tail(lines), GulpReduceStep(acc, Head(lines)))

codepointsToIjmap(codepoints) ==
  Reduce(RejectEmpty(Split(codepoints, "\n")), Obj(<<>>))

\* const ijmap = { icons: codepointsToIjmap(contents.toString()) }
GulpIjmap(contents) ==
  Obj(<<Prop(IconsKey, codepointsToIjmap(contents))>>)

(***************************************************************************)
(* The gulpfile: the sprite tasks.                                         *)
(***************************************************************************)
ICON_CATEGORIES ==
  <<"action", "alert", "av", "communication", "content", "editor", "file",
    "hardware", "image", "maps", "navigation", "notification", "places",
    "social", "toggle">>


\* the same colour twice
ColorsRepeated ==
  <<"black", "black">>

PNG_COLORS ==
  <<"black", "white">>

\* _.times(n, () => v)
Times(n, v) ==
  [i \in 1..n |-> v]

\* _.zip(a, b) of two arrays of the same length
Zip(a, b) ==
  [i \in 1..Len(a) |-> <<a[i], b[i]>>]

\* .flatten(): one level
RECURSIVE Flatten(_)
Flatten(lists) ==
  IF lists = <<>> THEN <<>> ELSE Head(lists) \o Flatten(Tail(lists))


\* _.zip([category], PNG_COLORS): the category is not repeated per color
PairsWithoutTimes ==
  Flatten([i \in 1..Len(ICON_CATEGORIES) |->
             [k \in 1..Len(PNG_COLORS) |->
                <<IF k = 1 THEN ICON_CATEGORIES[i] ELSE "undefined",
                  PNG_COLORS[k]>>]])

getCategoryColorPairs ==
  Flatten([i \in 1..Len(ICON_CATEGORIES) |->
             Zip(Times(Len(PNG_COLORS), ICON_CATEGORIES[i]), PNG_COLORS)])

\* the characters of the string literals and of the values substituted into
\* the template strings of the gulpfile
Chars(s) ==
  CASE s = "action" ->
         <<"a", "c", "t", "i", "o", "n">>
    [] s = "alert" ->
         <<"a", "l", "e", "r", "t">>
    [] s = "av" ->
         <<"a", "v">>
    [] s = "communication" ->
         <<"c", "o", "m", "m", "u", "n", "i", "c", "a", "t", "i", "o",
         "n">>
    [] s = "content" ->
         <<"c", "o", "n", "t", "e", "n", "t">>
    [] s = "editor" ->
         <<"e", "d", "i", "t", "o", "r">>
    [] s = "file" ->
         <<"f", "i", "l", "e">>
    [] s = "hardware" ->
         <<"h", "a", "r", "d", "w", "a", "r", "e">>
    [] s = "image" ->
         <<"i", "m", "a", "g", "e">>
    [] s = "maps" ->
         <<"m", "a", "p", "s">>
    [] s = "navigation" ->
         <<"n", "a", "v", "i", "g", "a", "t", "i", "o", "n">>
    [] s = "notification" ->
         <<"n", "o", "t", "i", "f", "i", "c", "a", "t", "i", "o", "n">>
    [] s = "places" ->
         <<"p", "l", "a", "c", "e", "s">>
    [] s = "social" ->
         <<"s", "o", "c", "i", "a", "l">>
    [] s = "toggle" ->
         <<"t", "o", "g", "g", "l", "e">>
    [] s = "black" ->
         <<"b", "l", "a", "c", "k">>
    [] s = "white" ->
         <<"w", "h", "i", "t", "e">>
    [] s = "./" ->
         <<".", "/">>
    [] s = "/1x_web/*_" ->
         <<"/", "1", "x", "_", "w", "e", "b", "/", "*", "_">>
    [] s = "_24dp.png" ->
         <<"_", "2", "4", "d", "p", ".", "p", "n", "g">>
    [] s = "sprite-" ->
         <<"s", "p", "r", "i", "t", "e", "-">>
    [] s = "-" ->
         <<"-">>
    [] s = ".css" ->
         <<".", "c", "s", "s">>
    [] s = "/svg/production/*_24px.svg" ->
         <<"/", "s", "v", "g", "/", "p", "r", "o", "d", "u", "c", "t", "i",
         "o", "n", "/", "*", "_", "2", "4", "p", "x", ".", "s", "v", "g">>
    [] s = "./svg-sprite-" ->
         <<".", "/", "s", "v", "g", "-", "s", "p", "r", "i", "t", "e",
         "-">>
    [] s = ".svg" ->
         <<".", "s", "v", "g">>
    [] s = ".html" ->
         <<".", "h", "t", "m", "l">>
    [] s = "-symbol.svg" ->
         <<"-", "s", "y", "m", "b", "o", "l", ".", "s", "v", "g">>
    [] s = "-symbol.html" ->
         <<"-", "s", "y", "m", "b", "o", "l", ".", "h", "t", "m", "l">>
    [] s = "./sprites/css-sprite/" ->
         <<".", "/", "s", "p", "r", "i", "t", "e", "s", "/", "c", "s", "s",
         "-", "s", "p", "r", "i", "t", "e", "/">>
    [] s = "./sprites/svg-sprite" ->
         <<".", "/", "s", "p", "r", "i", "t", "e", "s", "/", "s", "v", "g",
         "-", "s", "p", "r", "i", "t", "e">>

\* the text of a template string, given as the sequence of its parts
TemplateText(parts) ==
  Flatten([i \in 1..Len(parts) |-> Chars(parts[i])])

\* the stylesheet is named after the category alone
OptionsStyleByCategory(pair) ==
  [src |-> <<"./", pair[1], "/1x_web/*_", pair[2], "_24dp.png">>,
   style |-> <<"sprite-", pair[1], ".css">>,
   name |-> <<"sprite-", pair[1], "-", pair[2]>>,
   engine |-> "sprity-gm",
   orientation |-> "left-right"]

\* the options object handed to sprity.src for one pair; a template string is
\* the sequence of its literal and substituted parts
SprityOptions(pair) ==
  [src |-> <<"./", pair[1], "/1x_web/*_", pair[2], "_24dp.png">>,
   style |-> <<"sprite-", pair[1], "-", pair[2], ".css">>,
   name |-> <<"sprite-", pair[1], "-", pair[2]>>,
   engine |-> "sprity-gm",
   orientation |-> "left-right"]

\* the body of the 'png-sprites' task: one sprity.src call per pair, in order
PngSpriteCalls ==
  [i \in 1..Len(getCategoryColorPairs) |->
     SprityOptions(getCategoryColorPairs[i])]


\* the symbol mode under names that put the marker in front of the category
ConfigMarkerFirst(category) ==
  [shape |-> [dimension |-> [maxWidth |-> 24, maxHeight |-> 24]],
   css |-> [sprite |-> <<"./svg-sprite-", category, ".svg">>,
            example |-> <<"./svg-sprite-", category, ".html">>,
            render |-> <<"./svg-sprite-", category, ".css">>,
            dest |-> "./", bust |-> FALSE],
   symbol |-> [sprite |-> <<"./svg-sprite-", "-symbol.svg", category>>,
               example |-> <<"./svg-sprite-", "-symbol.html", category>>,
               dest |-> "./", bust |-> FALSE]]

getSvgSpriteConfig(category) ==
  [shape |-> [dimension |-> [maxWidth |-> 24, maxHeight |-> 24]],
   css |-> [sprite |-> <<"./svg-sprite-", category, ".svg">>,
            example |-> <<"./svg-sprite-", category, ".html">>,
            render |-> <<"./svg-sprite-", category, ".css">>,
            dest |-> "./", bust |-> FALSE],
   symbol |-> [sprite |-> <<"./svg-sprite-", category, "-symbol.svg">>,
               example |-> <<"./svg-sprite-", category, "-symbol.html">>,
               dest |-> "./", bust |-> FALSE]]

\* the body of the 'svg-sprites' task: one gulp.src(...).pipe(svgSprite(...))
\* per category, in order
SvgSpriteCalls ==
  [i \in 1..Len(ICON_CATEGORIES) |->
     [src |-> <<"./", ICON_CATEGORIES[i], "/svg/production/*_24px.svg">>,
      config |-> getSvgSpriteConfig(ICON_CATEGORIES[i])]]

(***************************************************************************)
(* The inputs: the lines of the codepoints file and the listing of the     *)
(* iconfont directory.                                                     *)
(***************************************************************************)
MaxLines == 2

MaxRuns == 2

Lines ==
  { <<>>,
    <<"i", "c", "_", "p", "l", "a", "y", "_", "a", "r", "r", "o", "w", " ",
      "e", "0", "3", "7">>,
    <<"3", "d", " ", "e", "8", "4", "d">>,
    <<"a", "_", "b", " ", "1", "2">>,
    <<"b", " ", "7">>,
    <<"a", "b">>,
    <<"_", "a", " ", "e", "1">>,
    <<"a", "_", "_", "b", " ", "e", "2">>,
    <<"a", "\t", "e", "3">>,
    <<"a", " ", " ", "e", "3">>,
    <<"a", "B", " ", "E", "4">>,
    <<"c", " ", "e", "0", "3", "7">> }

SeqsUpTo(S, n) ==
  UNION {[1..k -> S] : k \in 0..n}

Files ==
  SeqsUpTo(Lines, MaxLines)

TtfName ==
  <<"M", "a", "t", "e", "r", "i", "a", "l", "I", "c", "o", "n", "s", "-",
    "R", "e", "g", "u", "l", "a", "r", ".", "t", "t", "f">>

CodepointsName ==
  <<"c", "o", "d", "e", "p", "o", "i", "n", "t", "s">>

DirListings ==
  { <<CodepointsName, TtfName>>,
    <<CodepointsName>>,
    <<<<"a", ".", "t", "t", "f">>, TtfName>> }

Scripts ==
  {"iconfont", "sketch"}

GulpTargets ==
  {"png-sprites", "svg-sprites", "iconjar", "default"}

(***************************************************************************)
(* The state.                                                              *)
(***************************************************************************)
VARIABLES
  conv,         \* the program that runs: "iconfont", "sketch" or "gulp"
  target,       \* the gulp task asked for ("script" for the two scripts)
  codepoints,   \* the lines of the file 'codepoints'
  dirListing,   \* the names in the iconfont directory
  fs,           \* the files written so far: name -> text
  run,          \* the number of the current run of the program
  pc,           \* where the current run is
  pos,          \* the number of 'line' events delivered in this run
  name,         \* the outer variable 'name' of iconjar-map.js
  json,         \* the variable 'json' of the two scripts
  started,      \* the gulp tasks whose function has been called
  sprityCalls,  \* the options of the sprity.src calls of this run
  svgCalls,     \* the gulp.src / svgSprite calls of this run
  piped,        \* the vinyl files the ijmap transform has passed on
  out,          \* the files this run has written, as it left them
  prevOut       \* the files the run before this one had written

\* the streams of a sprite task
VARIABLES
  srcEmitted,   \* source stream -> the number of files it has emitted
  srcEnded,     \* the source streams that have emitted 'end'
  idleEnded,    \* how many of the sources without a file have ended
  merged,       \* the files buffered in the merged stream
  mergedState,  \* the merged stream: "open", "ending" (end() called), "ended"
  destFiles     \* the files handed to the writer of gulp.dest, in order

\* the task runner
VARIABLES
  taskRuns,     \* task -> the number of times its function has been called
  finished      \* the tasks that have completed, in the order they did

taskVars ==
  <<taskRuns, finished>>

\* the React icon components
VARIABLES
  component,    \* the icon component that is rendered
  props,        \* the props object it is called with: attribute -> value
  rendered      \* the element it has returned

reactVars ==
  <<component, props, rendered>>

streamVars ==
  <<srcEmitted, srcEnded, idleEnded, merged, mergedState, destFiles>>

vars ==
  <<conv, target, codepoints, dirListing, fs, run, pc, pos, name, json,
    started, sprityCalls, svgCalls, piped, out, prevOut, streamVars,
    taskVars, reactVars>>

\* the sprite streams that find files to work on, and the files each of
\* them emits at most; every other source finds none and only ends
MaxBusySources == 2
MaxFiles == 1

BusySources ==
  1..MaxBusySources

\* no component is rendered
NotRendered ==
  [kind |-> "none"]

NoProps ==
  [a \in {} |-> NotRendered]

ReactIdle ==
  /\ component = "none"
  /\ props = NoProps
  /\ rendered = NotRendered

StreamsInit ==
  /\ srcEmitted = [s \in BusySources |-> 0]
  /\ srcEnded = {}
  /\ idleEnded = 0
  /\ merged = <<>>
  /\ mergedState = "open"
  /\ destFiles = <<>>

\* the runs that read the codepoints file and write into the iconfont
\* directory; the other runs (one sprite task alone) touch neither
ReadsCodepoints(c, t) ==
  c \in Scripts \/ t \in {"iconjar", "default"}

Init ==
  /\ conv \in Scripts \cup {"gulp"}
  /\ target \in (IF conv = "gulp" THEN GulpTargets ELSE {"script"})
  /\ codepoints \in (IF ReadsCodepoints(conv, target) THEN Files ELSE {<<>>})
  /\ dirListing \in (IF ReadsCodepoints(conv, target)
                       THEN DirListings
                       ELSE {<<CodepointsName, TtfName>>})
  /\ fs = << >>
  /\ run = 1
  /\ pc = "start"
  /\ pos = 0
  /\ name = Null
  /\ json = EmptyJson
  /\ started = {}
  /\ sprityCalls = <<>>
  /\ svgCalls = <<>>
  /\ piped = <<>>
  /\ out = <<>>
  /\ prevOut = <<>>
  /\ StreamsInit
  /\ taskRuns = [t \in GulpTargets |-> 0]
  /\ finished = <<>>
  /\ ReactIdle


\* fileSystem.appendFileSync(file, data): the data is added to the file
AppendFile(files, file, data) ==
  [f \in DOMAIN files \cup {file} |->
     IF f = file
       THEN (IF f \in DOMAIN files THEN files[f] \o data ELSE data)
       ELSE files[f]]

\* fileSystem.writeFileSync(file, data) / gulp.dest: the file is created or
\* replaced
WriteFile(files, file, data) ==
  [f \in DOMAIN files \cup {file} |-> IF f = file THEN data ELSE files[f]]

ListingAfterWrite(listing, file) ==
  IF file \in Range(listing) THEN listing ELSE Append(listing, file)


\* the write is not deferred to the end of the input
WriteAtOnce(p, file) ==
  TRUE

\* readline emits 'close' when the input stream has ended
InputEnded(p, file) ==
  p = Len(file)

(***************************************************************************)
(* iconfont/iconjar-map.js                                                 *)
(***************************************************************************)
IconfontStart ==
  /\ conv = "iconfont" /\ pc = "start"
  /\ name' = ScanDir(dirListing)
  /\ json' = EmptyJson
  /\ pos' = 0
  /\ pc' = "reading"
  /\ UNCHANGED streamVars
  /\ UNCHANGED taskVars
  /\ UNCHANGED reactVars
  /\ UNCHANGED <<conv, target, codepoints, dirListing, fs, run, started,
                 sprityCalls, svgCalls, piped, out, prevOut>>


\* the handler assigns the name it computes to the outer variable
OuterNameAssigned(outer, line) ==
  IF IconfontLineThrows(line)
    THEN outer
    ELSE Str(IconfontName(LineMatch(line).g1))

\* the outer variable 'name' after the 'line' handler has run: the handler
\* declares its own 'name' with var, and the outer one is not touched
OuterNameAfterLine(outer, line) ==
  outer

IconfontOnLine ==
  /\ conv = "iconfont" /\ pc = "reading"
  /\ ~InputEnded(pos, codepoints)
  /\ LET line == codepoints[pos + 1]
     IN  /\ IF IconfontLineThrows(line)
              THEN /\ pc' = "crashed"
                   /\ json' = json
              ELSE /\ pc' = pc
                   /\ json' = IconfontLine(json, line)
         /\ name' = OuterNameAfterLine(name, line)
  /\ pos' = pos + 1
  /\ UNCHANGED streamVars
  /\ UNCHANGED taskVars
  /\ UNCHANGED reactVars
  /\ UNCHANGED <<conv, target, codepoints, dirListing, fs, run,
                 started, sprityCalls, svgCalls, piped, out, prevOut>>

\* the 'close' handler writes the file a second time
IconfontOnCloseTwice ==
  /\ conv = "iconfont" /\ pc = "reading"
  /\ InputEnded(pos, codepoints)
  /\ LET file == ToText(name) \o IjmapExt
         data == Stringify(json)
         written == [file |-> file, data |-> WriteFile(fs, file, data)[file]]
     IN  /\ fs' = WriteFile(fs, file, data)
         /\ dirListing' = ListingAfterWrite(dirListing, file)
         /\ out' = Append(Append(out, written), written)
  /\ pc' = "closed"
  /\ UNCHANGED streamVars
  /\ UNCHANGED taskVars
  /\ UNCHANGED reactVars
  /\ UNCHANGED <<conv, target, codepoints, run, pos, name, json, started,
                 sprityCalls, svgCalls, piped, prevOut>>

IconfontOnClose ==
  /\ conv = "iconfont" /\ pc = "reading"
  /\ InputEnded(pos, codepoints)
  /\ LET file == ToText(name) \o IjmapExt
         data == Stringify(json)
     IN  /\ fs' = WriteFile(fs, file, data)
         /\ dirListing' = ListingAfterWrite(dirListing, file)
         /\ out' = Append(out, [file |-> file, data |-> fs'[file]])
  /\ pc' = "closed"
  /\ UNCHANGED streamVars
  /\ UNCHANGED taskVars
  /\ UNCHANGED reactVars
  /\ UNCHANGED <<conv, target, codepoints, run, pos, name, json, started,
                 sprityCalls, svgCalls, piped, prevOut>>

(***************************************************************************)
(* The script of sketch/README.md                                          *)
(***************************************************************************)
SketchStart ==
  /\ conv = "sketch" /\ pc = "start"
  /\ json' = EmptyJson
  /\ pos' = 0
  /\ pc' = "reading"
  /\ UNCHANGED streamVars
  /\ UNCHANGED taskVars
  /\ UNCHANGED reactVars
  /\ UNCHANGED <<conv, target, codepoints, dirListing, fs, run, name,
                 started, sprityCalls, svgCalls, piped, out, prevOut>>

SketchOnLine ==
  /\ conv = "sketch" /\ pc = "reading"
  /\ ~InputEnded(pos, codepoints)
  /\ json' = SketchLine(json, codepoints[pos + 1])
  /\ pos' = pos + 1
  /\ UNCHANGED streamVars
  /\ UNCHANGED taskVars
  /\ UNCHANGED reactVars
  /\ UNCHANGED <<conv, target, codepoints, dirListing, fs, run, pc, name,
                 started, sprityCalls, svgCalls, piped, out, prevOut>>

SketchOnClose ==
  /\ conv = "sketch" /\ pc = "reading"
  /\ InputEnded(pos, codepoints)
  /\ LET data == Stringify(json)
     IN  /\ fs' = WriteFile(fs, MAP_FILE_NAME, data)
         /\ dirListing' = ListingAfterWrite(dirListing, MAP_FILE_NAME)
         /\ out' = Append(out, [file |-> MAP_FILE_NAME, data |-> fs'[MAP_FILE_NAME]])
  /\ pc' = "closed"
  /\ UNCHANGED streamVars
  /\ UNCHANGED taskVars
  /\ UNCHANGED reactVars
  /\ UNCHANGED <<conv, target, codepoints, run, pos, name, json, started,
                 sprityCalls, svgCalls, piped, prevOut>>

(***************************************************************************)
(* The gulpfile.  The task runner calls the functions of the tasks asked   *)
(* for one after the other, in the order of the dependency list, before    *)
(* any of the streams they return carries data.                            *)
(***************************************************************************)
\* gulp.task('default', ['png-sprites', 'svg-sprites', 'iconjar'])
TaskList(t) ==
  IF t = "default" THEN <<"png-sprites", "svg-sprites", "iconjar">> ELSE <<t>>

IsNextTask(t) ==
  /\ conv = "gulp" /\ pc = "start"
  /\ Cardinality(started) < Len(TaskList(target))
  /\ TaskList(target)[Cardinality(started) + 1] = t

AfterTask(t) ==
  /\ started' = started \cup {t}
  /\ taskRuns' = [taskRuns EXCEPT ![t] = @ + 1]
  /\ finished' = finished
  /\ pc' = IF Cardinality(started) + 1 = Len(TaskList(target))
             THEN "flowing"
             ELSE "start"

PngSprites ==
  /\ IsNextTask("png-sprites")
  /\ sprityCalls' = sprityCalls \o PngSpriteCalls
  /\ AfterTask("png-sprites")
  /\ UNCHANGED streamVars
  /\ UNCHANGED reactVars
  /\ UNCHANGED <<conv, target, codepoints, dirListing, fs, run, pos, name,
                 json, svgCalls, piped, out, prevOut>>

SvgSprites ==
  /\ IsNextTask("svg-sprites")
  /\ svgCalls' = svgCalls \o SvgSpriteCalls
  /\ AfterTask("svg-sprites")
  /\ UNCHANGED streamVars
  /\ UNCHANGED reactVars
  /\ UNCHANGED <<conv, target, codepoints, dirListing, fs, run, pos, name,
                 json, sprityCalls, piped, out, prevOut>>

\* gulp.src('./iconfont/codepoints').pipe(generateIjmap(...)).pipe(gulp.dest(...))
Iconjar ==
  /\ IsNextTask("iconjar")
  /\ AfterTask("iconjar")
  /\ UNCHANGED streamVars
  /\ UNCHANGED reactVars
  /\ UNCHANGED <<conv, target, codepoints, dirListing, fs, run, pos, name,
                 json, sprityCalls, svgCalls, piped, out, prevOut>>


\* the transform keeps the path of the file it was handed
KeepInputPath(ijmapPath, contents) ==
  [path |-> <<"c", "o", "d", "e", "p", "o", "i", "n", "t", "s">>,
   contents |-> Stringify(GulpIjmap(contents))]

\* the file the through2 transform of generateIjmap(ijmapPath) passes on
generateIjmap(ijmapPath, contents) ==
  [path |-> ijmapPath, contents |-> Stringify(GulpIjmap(contents))]

GulpTransform ==
  /\ conv = "gulp" /\ pc = "flowing"
  /\ "iconjar" \in started
  /\ piped = <<>>
  /\ piped' = Append(piped, generateIjmap(MAP_FILE_NAME, FileText(codepoints)))
  /\ UNCHANGED streamVars
  /\ UNCHANGED taskVars
  /\ UNCHANGED reactVars
  /\ UNCHANGED <<conv, target, codepoints, dirListing, fs, run, pc, pos, name,
                 json, started, sprityCalls, svgCalls, out, prevOut>>

\* gulp.dest('./iconfont/') writes the file it is handed
GulpDest ==
  /\ conv = "gulp" /\ pc = "flowing"
  /\ Len(piped) > Len(out)
  /\ LET file == piped[Len(out) + 1]
     IN  /\ fs' = WriteFile(fs, file.path, file.contents)
         /\ dirListing' = ListingAfterWrite(dirListing, file.path)
         /\ out' = Append(out, [file |-> file.path, data |-> fs'[file.path]])
  /\ pc' = "done"
  /\ UNCHANGED streamVars
  /\ UNCHANGED taskVars
  /\ UNCHANGED reactVars
  /\ UNCHANGED <<conv, target, codepoints, run, pos, name, json, started,
                 sprityCalls, svgCalls, piped, prevOut>>

\* a run that has no iconjar task ends when its sprite streams have ended
GulpSpritesEnd ==
  /\ conv = "gulp" /\ pc = "flowing"
  /\ "iconjar" \notin started
  /\ pc' = "done"
  /\ UNCHANGED streamVars
  /\ UNCHANGED taskVars
  /\ UNCHANGED reactVars
  /\ UNCHANGED <<conv, target, codepoints, dirListing, fs, run, pos, name,
                 json, started, sprityCalls, svgCalls, piped, out, prevOut>>

(***************************************************************************)
(* Running the same program again on the same files: a new process, which  *)
(* inherits nothing but the directory.                                     *)
(***************************************************************************)
RunEnded ==
  pc \in {"closed", "crashed", "done"}

Rerun ==
  /\ RunEnded
  /\ run < MaxRuns
  /\ run' = run + 1
  /\ pc' = "start"
  /\ pos' = 0
  /\ name' = Null
  /\ json' = EmptyJson
  /\ started' = {}
  /\ taskRuns' = [t \in GulpTargets |-> 0]
  /\ finished' = <<>>
  /\ sprityCalls' = <<>>
  /\ svgCalls' = <<>>
  /\ piped' = <<>>
  /\ prevOut' = out
  /\ out' = <<>>
  /\ UNCHANGED streamVars
  /\ UNCHANGED <<streamVars, reactVars>>
  /\ UNCHANGED <<conv, target, codepoints, dirListing, fs>>

Next ==
  \/ IconfontStart
  \/ IconfontOnLine
  \/ IconfontOnClose
  \/ SketchStart
  \/ SketchOnLine
  \/ SketchOnClose
  \/ PngSprites
  \/ SvgSprites
  \/ Iconjar
  \/ GulpTransform
  \/ GulpDest
  \/ GulpSpritesEnd
  \/ Rerun

Spec ==
  Init /\ [][Next]_vars

(***************************************************************************)
(* One run of a converter alone, in the directory as it is shipped.        *)
(***************************************************************************)
InitOneRun ==
  /\ Init
  /\ conv \in Scripts \/ target = "iconjar"
  /\ dirListing = <<CodepointsName, TtfName>>

NextOneRun ==
  \/ IconfontStart
  \/ IconfontOnLine
  \/ IconfontOnClose
  \/ SketchStart
  \/ SketchOnLine
  \/ SketchOnClose
  \/ Iconjar
  \/ GulpTransform
  \/ GulpDest

SpecOneRun ==
  InitOneRun /\ [][NextOneRun]_vars

(***************************************************************************)
(* iconjar-map.js alone, in directories of every kind: with no font, with  *)
(* several, with names that hold '.ttf' elsewhere than at their end, and   *)
(* with an extension in capitals.                                          *)
(***************************************************************************)
MaxEntries == 2

ScanNames ==
  { CodepointsName,
    TtfName,
    <<"a", ".", "t", "t", "f">>,
    <<"a", ".", "t", "t", "f", "b", ".", "t", "t", "f">>,
    <<"b", ".", "T", "T", "F">> }

\* the listings readdirSync can return: no name twice
ScanListings ==
  {l \in SeqsUpTo(ScanNames, MaxEntries) :
     \A i, k \in 1..Len(l) : l[i] = l[k] => i = k}

InitScan ==
  /\ conv = "iconfont"
  /\ target = "script"
  /\ codepoints \in {f \in Files : Len(f) <= 1}
  /\ dirListing \in ScanListings
  /\ fs = << >>
  /\ run = 1
  /\ pc = "start"
  /\ pos = 0
  /\ name = Null
  /\ json = EmptyJson
  /\ started = {}
  /\ sprityCalls = <<>>
  /\ svgCalls = <<>>
  /\ piped = <<>>
  /\ out = <<>>
  /\ prevOut = <<>>
  /\ StreamsInit
  /\ taskRuns = [t \in GulpTargets |-> 0]
  /\ finished = <<>>
  /\ ReactIdle

NextScan ==
  \/ IconfontStart
  \/ IconfontOnLine
  \/ IconfontOnClose

SpecScan ==
  InitScan /\ [][NextScan]_vars

(***************************************************************************)
(* One run of one of the two scripts, with readline at work: as long as a  *)
(* handler has an event to handle, it is called.                           *)
(***************************************************************************)
InitScript ==
  /\ Init
  /\ conv \in Scripts
  /\ dirListing = <<CodepointsName, TtfName>>

NextScript ==
  \/ IconfontStart
  \/ IconfontOnLine
  \/ IconfontOnClose
  \/ SketchStart
  \/ SketchOnLine
  \/ SketchOnClose

SpecScript ==
  InitScript /\ [][NextScript]_vars

\* what a call of a handler does to the position of the run: the start of
\* the script, one 'line' event, or the 'close' event after the last line
EventHandled ==
  /\ conv \in Scripts
  /\ \/ pc = "start" /\ pc' = "reading" /\ pos' = 0
     \/ /\ pc = "reading" /\ ~InputEnded(pos, codepoints)
        /\ pc' \in {"reading", "crashed"} /\ pos' = pos + 1
     \/ /\ pc = "reading" /\ InputEnded(pos, codepoints)
        /\ pc' = "closed" /\ pos' = pos

\* readline delivers every line of the file and then 'close': an event that
\* is due is handled
FairSpecScript ==
  SpecScript /\ WF_<<pc, pos>>(EventHandled)

(***************************************************************************)
(* The streams of one sprite task alone.  The task function makes one      *)
(* source stream per call, hands them all to merge-stream, and pipes the   *)
(* merged stream into gulp.dest.  merge-stream pipes every source into its *)
(* output with {end: false} and calls output.end() when the last source    *)
(* has emitted 'end'.                                                      *)
(***************************************************************************)
SpriteTasks ==
  {"png-sprites", "svg-sprites"}

\* the calls whose streams the task merges
SourceCalls ==
  IF target = "png-sprites" THEN sprityCalls ELSE svgCalls

\* gulp.dest(...) of a sprite task
TaskDest(t) ==
  IF t = "png-sprites" THEN "./sprites/css-sprite/" ELSE "./sprites/svg-sprite"

SpriteDest ==
  TaskDest(target)

\* the number of sources that find no file
IdleSources ==
  Len(SourceCalls) - MaxBusySources


\* the output is ended as soon as one source has ended, as a plain
\* a.pipe(out) does
FirstSourceEnded(ended, idle) ==
  ended # {} \/ idle > 0

\* merge-stream, remove(source): no source is left
LastSourceEnded(ended, idle) ==
  ended = BusySources /\ idle = IdleSources

\* the state of the output after a source has ended
AfterRemove(ended, idle) ==
  IF mergedState = "open" /\ LastSourceEnded(ended, idle)
    THEN "ending"
    ELSE mergedState

\* a source emits a file: pipe writes it into the merged stream; a write
\* after end() is refused and the file is dropped
SourceEmit ==
  /\ conv = "gulp" /\ target \in SpriteTasks /\ pc = "flowing"
  /\ \E s \in BusySources \ srcEnded :
       /\ srcEmitted[s] < MaxFiles
       /\ srcEmitted' = [srcEmitted EXCEPT ![s] = @ + 1]
       /\ merged' = IF mergedState = "open"
                      THEN Append(merged, [source |-> s, n |-> srcEmitted[s] + 1])
                      ELSE merged
  /\ UNCHANGED <<srcEnded, idleEnded, mergedState, destFiles>>
  /\ UNCHANGED taskVars
  /\ UNCHANGED reactVars
  /\ UNCHANGED <<conv, target, codepoints, dirListing, fs, run, pc, pos, name,
                 json, started, sprityCalls, svgCalls, piped, out, prevOut>>

\* a source that has emitted files ends
SourceEnd ==
  /\ conv = "gulp" /\ target \in SpriteTasks /\ pc = "flowing"
  /\ \E s \in BusySources \ srcEnded :
       /\ srcEnded' = srcEnded \cup {s}
       /\ mergedState' = AfterRemove(srcEnded', idleEnded)
  /\ UNCHANGED <<srcEmitted, idleEnded, merged, destFiles>>
  /\ UNCHANGED taskVars
  /\ UNCHANGED reactVars
  /\ UNCHANGED <<conv, target, codepoints, dirListing, fs, run, pc, pos, name,
                 json, started, sprityCalls, svgCalls, piped, out, prevOut>>

\* a source that found no file ends
IdleSourceEnd ==
  /\ conv = "gulp" /\ target \in SpriteTasks /\ pc = "flowing"
  /\ idleEnded < IdleSources
  /\ idleEnded' = idleEnded + 1
  /\ mergedState' = AfterRemove(srcEnded, idleEnded')
  /\ UNCHANGED <<srcEmitted, srcEnded, merged, destFiles>>
  /\ UNCHANGED taskVars
  /\ UNCHANGED reactVars
  /\ UNCHANGED <<conv, target, codepoints, dirListing, fs, run, pc, pos, name,
                 json, started, sprityCalls, svgCalls, piped, out, prevOut>>

\* .pipe(gulp.dest(...)): the merged stream hands its oldest file to the
\* writer
MergedPass ==
  /\ conv = "gulp" /\ target \in SpriteTasks /\ pc = "flowing"
  /\ merged # <<>>
  /\ destFiles' = Append(destFiles, [file |-> Head(merged), dest |-> SpriteDest])
  /\ merged' = Tail(merged)
  /\ UNCHANGED <<srcEmitted, srcEnded, idleEnded, mergedState>>
  /\ UNCHANGED taskVars
  /\ UNCHANGED reactVars
  /\ UNCHANGED <<conv, target, codepoints, dirListing, fs, run, pc, pos, name,
                 json, started, sprityCalls, svgCalls, piped, out, prevOut>>

\* the merged stream, ended and drained, emits 'end'
MergedEnd ==
  /\ conv = "gulp" /\ target \in SpriteTasks /\ pc = "flowing"
  /\ mergedState = "ending"
  /\ merged = <<>>
  /\ mergedState' = "ended"
  /\ pc' = "done"
  /\ UNCHANGED <<srcEmitted, srcEnded, idleEnded, merged, destFiles>>
  /\ UNCHANGED taskVars
  /\ UNCHANGED reactVars
  /\ UNCHANGED <<conv, target, codepoints, dirListing, fs, run, pos, name,
                 json, started, sprityCalls, svgCalls, piped, out, prevOut>>

InitStreams ==
  /\ Init
  /\ conv = "gulp"
  /\ target \in SpriteTasks

NextStreams ==
  \/ PngSprites
  \/ SvgSprites
  \/ SourceEmit
  \/ SourceEnd
  \/ IdleSourceEnd
  \/ MergedPass
  \/ MergedEnd

SpecStreams ==
  InitStreams /\ [][NextStreams]_vars

(***************************************************************************)
(* The task 'default' with the task runner: the functions of the three     *)
(* tasks it depends on are called one after the other; each of the tasks   *)
(* completes when the stream its function returned has ended; 'default',   *)
(* which has no function of its own, runs when all three have completed.   *)
(***************************************************************************)
\* a sprite task completes: the stream its function returned has ended
SpriteTaskEnd ==
  /\ conv = "gulp" /\ pc = "flowing"
  /\ \E t \in (started \cap SpriteTasks) \ Range(finished) :
       finished' = Append(finished, t)
  /\ UNCHANGED <<taskRuns, streamVars>>
  /\ UNCHANGED reactVars
  /\ UNCHANGED <<conv, target, codepoints, dirListing, fs, run, pc, pos, name,
                 json, started, sprityCalls, svgCalls, piped, out, prevOut>>

\* gulp.dest('./iconfont/') writes the file it is handed, and the stream
\* the 'iconjar' function returned ends
IconjarDest ==
  /\ conv = "gulp" /\ pc = "flowing"
  /\ Len(piped) > Len(out)
  /\ LET file == piped[Len(out) + 1]
     IN  /\ fs' = WriteFile(fs, file.path, file.contents)
         /\ dirListing' = ListingAfterWrite(dirListing, file.path)
         /\ out' = Append(out, [file |-> file.path, data |-> fs'[file.path]])
  /\ finished' = Append(finished, "iconjar")
  /\ UNCHANGED <<taskRuns, streamVars>>
  /\ UNCHANGED reactVars
  /\ UNCHANGED <<conv, target, codepoints, run, pc, pos, name, json, started,
                 sprityCalls, svgCalls, piped, prevOut>>


\* 'default' does not wait for all of its dependencies
SomeDepFinished(t, done) ==
  \E i \in 1..Len(TaskList(t)) : TaskList(t)[i] \in done

\* every task the task depends on has completed
DepsFinished(t, done) ==
  \A i \in 1..Len(TaskList(t)) : TaskList(t)[i] \in done

\* 'default' itself: it runs, and completes at once, when the tasks it
\* depends on have completed; the run is over
DefaultTask ==
  /\ conv = "gulp" /\ target = "default" /\ pc = "flowing"
  /\ DepsFinished(target, Range(finished))
  /\ taskRuns' = [taskRuns EXCEPT !["default"] = @ + 1]
  /\ finished' = Append(finished, "default")
  /\ pc' = "done"
  /\ UNCHANGED streamVars
  /\ UNCHANGED reactVars
  /\ UNCHANGED <<conv, target, codepoints, dirListing, fs, run, pos, name,
                 json, started, sprityCalls, svgCalls, piped, out, prevOut>>

InitDefault ==
  /\ Init
  /\ conv = "gulp"
  /\ target = "default"

NextDefault ==
  \/ PngSprites
  \/ SvgSprites
  \/ Iconjar
  \/ GulpTransform
  \/ SpriteTaskEnd
  \/ IconjarDest
  \/ DefaultTask

SpecDefault ==
  InitDefault /\ [][NextDefault]_vars

(***************************************************************************)
(* The React icon components.  Each is a function of props that returns    *)
(*   <svg width={24} height={24} viewBox="0 0 24 24" {...props}>           *)
(*     <path d="..." /></svg>                                              *)
(* that is React.createElement("svg", Object.assign({width: 24, height:    *)
(* 24, viewBox: "0 0 24 24"}, props), React.createElement("path", {d})).   *)
(***************************************************************************)
Num(t) ==
  [kind |-> "number", text |-> t]

Text(t) ==
  [kind |-> "string", text |-> t]

Undefined ==
  [kind |-> "undefined"]

Components ==
  {"IcWarning", "IcKeyboardArrowRight"}

\* the d attribute of the component's path
PathData(c) ==
  IF c = "IcWarning"
    THEN "M1 21h22L12 2 1 21zm12-3h-2v-2h2v2zm0-4h-2v-4h2v4z"
    ELSE "M8.59 16.34l4.58-4.59-4.58-4.59L10 5.75l6 6-6 6z"


\* the attributes written in the tag win over the spread object
KeepTarget(target_, source) ==
  [k \in DOMAIN target_ \cup DOMAIN source |->
     IF k \in DOMAIN target_ THEN target_[k] ELSE source[k]]

\* {...target_, ...source}: the properties of source are copied over those
\* of target_
Assign(target_, source) ==
  [k \in DOMAIN target_ \cup DOMAIN source |->
     IF k \in DOMAIN source THEN source[k] ELSE target_[k]]

\* React.createElement(type, config, child...): key and ref are taken out of
\* config, every other property of config is a prop, and the children
\* written in the tag are the prop 'children'
\* a 'children' attribute of the config wins over the children written
\* between the tags
ChildrenFromConfig(type, config, children) ==
  [kind |-> "element",
   type |-> type,
   key |-> IF "key" \in DOMAIN config THEN config["key"] ELSE Undefined,
   ref |-> IF "ref" \in DOMAIN config THEN config["ref"] ELSE Undefined,
   props |-> Assign(IF children = <<>>
                      THEN NoProps
                      ELSE [k \in {"children"} |->
                              IF Len(children) = 1
                                THEN children[1]
                                ELSE [kind |-> "array", items |-> children]],
                    [k \in DOMAIN config \ {"key", "ref"} |-> config[k]])]

createElement(type, config, children) ==
  [kind |-> "element",
   type |-> type,
   key |-> IF "key" \in DOMAIN config THEN config["key"] ELSE Undefined,
   ref |-> IF "ref" \in DOMAIN config THEN config["ref"] ELSE Undefined,
   props |-> Assign([k \in DOMAIN config \ {"key", "ref"} |-> config[k]],
                    IF children = <<>>
                      THEN NoProps
                      ELSE [k \in {"children"} |->
                              IF Len(children) = 1
                                THEN children[1]
                                ELSE [kind |-> "array", items |-> children]])]

SvgDefaults ==
  [k \in {"width", "height", "viewBox"} |->
     IF k = "viewBox" THEN Text("0 0 24 24") ELSE Num("24")]

\* props => <svg width={24} height={24} viewBox="0 0 24 24" {...props}>
\*            <path d="..." /></svg>
Icon(c, p) ==
  createElement("svg", Assign(SvgDefaults, p),
                <<createElement("path", [k \in {"d"} |-> Text(PathData(c))],
                                <<>>)>>)

\* the attributes a caller passes, and the values it gives them
PropNames ==
  {"width", "height", "viewBox", "fill", "children", "d"}

PropValues ==
  {Num("48"), Text("0 0 48 48"), Undefined}

PropsObjects ==
  UNION {[S -> PropValues] : S \in SUBSET PropNames}

Render ==
  /\ conv = "react"
  /\ rendered = NotRendered
  /\ rendered' = Icon(component, props)
  /\ UNCHANGED <<component, props, streamVars, taskVars>>
  /\ UNCHANGED <<conv, target, codepoints, dirListing, fs, run, pc, pos, name,
                 json, started, sprityCalls, svgCalls, piped, out, prevOut>>

\* the parent renders the component again, with other props
NewProps ==
  /\ conv = "react"
  /\ rendered # NotRendered
  /\ \E a \in PropNames :
       \/ /\ a \in DOMAIN props
          /\ props' = [k \in DOMAIN props \ {a} |-> props[k]]
       \/ \E v \in PropValues :
            props' = Assign(props, [k \in {a} |-> v])
  /\ rendered' = NotRendered
  /\ UNCHANGED <<component, streamVars, taskVars>>
  /\ UNCHANGED <<conv, target, codepoints, dirListing, fs, run, pc, pos, name,
                 json, started, sprityCalls, svgCalls, piped, out, prevOut>>

InitReact ==
  /\ conv = "react"
  /\ target = "render"
  /\ codepoints = <<>>
  /\ dirListing = <<>>
  /\ fs = << >>
  /\ run = 1
  /\ pc = "start"
  /\ pos = 0
  /\ name = Null
  /\ json = EmptyJson
  /\ started = {}
  /\ sprityCalls = <<>>
  /\ svgCalls = <<>>
  /\ piped = <<>>
  /\ out = <<>>
  /\ prevOut = <<>>
  /\ StreamsInit
  /\ taskRuns = [t \in GulpTargets |-> 0]
  /\ finished = <<>>
  /\ component \in Components
  /\ props \in PropsObjects
  /\ rendered = NotRendered

NextReact ==
  \/ Render
  \/ NewProps

SpecReact ==
  InitReact /\ [][NextReact]_vars

(***************************************************************************)
(* Vocabulary of the properties.                                           *)
(***************************************************************************)
\* the run converts the codepoints file
ConverterRun ==
  conv \in Scripts \/ "iconjar" \in Range(TaskList(target))

\* "<name> <hex>": an identifier, one space, a hexadecimal codepoint
WellFormed(line) ==
  LET p == Split(line, " ")
  IN  /\ Len(p) = 2
      /\ p[1] # <<>> /\ \A i \in 1..Len(p[1]) : IsWord(p[1][i])
      /\ p[2] # <<>> /\ \A i \in 1..Len(p[2]) : IsHex(p[2][i])

NameToken(line) ==
  Split(line, " ")[1]

HexToken(line) ==
  Split(line, " ")[2]

NonBlank(file) ==
  SelectSeq(file, LAMBDA l : l # <<>>)

HasBlank(file) ==
  \E i \in 1..Len(file) : file[i] = <<>>

AllWellFormed(file) ==
  \A i \in 1..Len(file) : WellFormed(file[i])

DistinctHex(file) ==
  \A i, j \in 1..Len(file) : i # j => HexToken(file[i]) # HexToken(file[j])

\* the first letter of each word (at the start, or after a space) in upper case
CapitalizeWords(s) ==
  [i \in 1..Len(s) |->
     IF i = 1 \/ s[i - 1] = " " THEN ToUpperChar(s[i]) ELSE s[i]]

\* lowercased, every run of non-alphanumeric characters replaced by one space,
\* trimmed, the first letter of each word capitalized
TitleNorm(id) ==
  CapitalizeWords(Trim(ReplaceNonAlnumRuns(ToLowerCase(id))))

\* The entries of a document {"icons":{"<key>":{"name":"<name>"},...}}: entry
\* i takes the eight tokens after token 4 + 8 * (i - 1)
EntryCount(doc) ==
  (Len(doc) - 5) \div 8

DocKey(doc, i) ==
  doc[8 * i - 3].text

DocName(doc, i) ==
  doc[8 * i + 2].text

DocKeys(doc) ==
  [i \in 1..EntryCount(doc) |-> DocKey(doc, i)]

EmptyDoc ==
  <<Punct("{"), StringToken(IconsKey), Punct(":"), Punct("{"), Punct("}"),
    Punct("}")>>

\* the document is {"icons":{...}} and every entry is "<key>":{"name":"<name>"}
IjmapShape(doc) ==
  /\ Len(doc) = 6 \/ (Len(doc) > 6 /\ (Len(doc) - 5) % 8 = 0)
  /\ SubSeq(doc, 1, 4) = SubSeq(EmptyDoc, 1, 4)
  /\ SubSeq(doc, Len(doc) - 1, Len(doc)) = SubSeq(EmptyDoc, 5, 6)
  /\ \A i \in 1..EntryCount(doc) :
       /\ doc[8 * i - 3].tok = "string"
       /\ doc[8 * i - 2] = Punct(":")
       /\ doc[8 * i - 1] = Punct("{")
       /\ doc[8 * i] = StringToken(<<"n", "a", "m", "e">>)
       /\ doc[8 * i + 1] = Punct(":")
       /\ doc[8 * i + 2].tok = "string"
       /\ doc[8 * i + 3] = Punct("}")
       /\ (i < EntryCount(doc) => doc[8 * i + 4] = Punct(","))
  /\ \A i, j \in 1..EntryCount(doc) : i # j => DocKey(doc, i) # DocKey(doc, j)

(***************************************************************************)
(* C1: for a file of well-formed lines "<name> <hex>" with distinct        *)
(* codepoints, the document a converter writes has, for every line, the    *)
(* key <hex> with the name TitleNorm(<name>).                              *)
(***************************************************************************)
C1_TitleCasedNames ==
  (ConverterRun /\ RunEnded /\ AllWellFormed(codepoints)
     /\ DistinctHex(codepoints))
  => /\ Len(out) = 1
     /\ \A i \in 1..Len(codepoints) :
          \E e \in 1..EntryCount(out[1].data) :
            /\ DocKey(out[1].data, e) = Quote(HexToken(codepoints[i]))
            /\ DocName(out[1].data, e)
                 = Quote(TitleNorm(NameToken(codepoints[i])))

(***************************************************************************)
(* C2: an empty line in the input adds no entry and does not stop the      *)
(* conversion: when the other lines are well-formed, the document is       *)
(* written and its keys are exactly the codepoints of the other lines.     *)
(***************************************************************************)
C2_BlankLinesSkipped ==
  (ConverterRun /\ RunEnded /\ HasBlank(codepoints)
     /\ AllWellFormed(NonBlank(codepoints)))
  => /\ Len(out) = 1
     /\ Range(DocKeys(out[1].data))
          = {Quote(HexToken(l)) : l \in Range(NonBlank(codepoints))}

(***************************************************************************)
(* C3: when the non-blank lines are well-formed and carry distinct         *)
(* codepoints, the document has as many entries as there are non-blank     *)
(* lines.                                                                  *)
(***************************************************************************)
C3_EntryPerNonBlankLine ==
  (ConverterRun /\ RunEnded /\ AllWellFormed(NonBlank(codepoints))
     /\ DistinctHex(NonBlank(codepoints)))
  => /\ Len(out) = 1
     /\ EntryCount(out[1].data) = Len(NonBlank(codepoints))

(***************************************************************************)
(* C4: for a file of well-formed lines with distinct codepoints, the       *)
(* entries of the serialized document are in the order of the lines.       *)
(***************************************************************************)
C4_EntriesInSourceOrder ==
  (ConverterRun /\ RunEnded /\ AllWellFormed(codepoints)
     /\ DistinctHex(codepoints))
  => /\ Len(out) = 1
     /\ DocKeys(out[1].data)
          = [i \in 1..Len(codepoints) |-> Quote(HexToken(codepoints[i]))]

(***************************************************************************)
(* C5: every document a converter writes or passes on is a JSON object     *)
(* with the single key "icons", whose value maps each key to a record with *)
(* the single field "name"; the empty input gives {"icons":{}}.            *)
(***************************************************************************)
C5_DocumentShape ==
  /\ \A i \in 1..Len(out) : IjmapShape(out[i].data)
  /\ \A i \in 1..Len(piped) : IjmapShape(piped[i].contents)
  /\ \A f \in DOMAIN fs : IjmapShape(fs[f])
  /\ (codepoints = <<>> => \A i \in 1..Len(out) : out[i].data = EmptyDoc)

C5_Witness ==
  /\ Len(out) = 1
  /\ EntryCount(out[1].data) = 2

(***************************************************************************)
(* C6, as stated: every run writes its document under one fixed file name. *)
(***************************************************************************)
FixedName ==
  <<"M", "a", "t", "e", "r", "i", "a", "l", "I", "c", "o", "n", "s", "-",
    "R", "e", "g", "u", "l", "a", "r", ".", "i", "j", "m", "a", "p">>

C6_OneFixedName ==
  \A i \in 1..Len(out) : out[i].file = FixedName

(***************************************************************************)
(* C6, amended: the script of sketch/README.md and the gulp task write     *)
(* 'MaterialIcons-Regular.ijmap' whatever the lines and the directory      *)
(* hold; iconjar-map.js writes '<name>.ijmap', where <name> comes from the *)
(* listing of its directory alone (the first '.ttf' entry, else null), not *)
(* from the lines.                                                         *)
(***************************************************************************)
HasTtfExt(f) ==
  /\ Len(f) > 4
  /\ SubSeq(f, Len(f) - 3, Len(f)) = <<".", "t", "t", "f">>

C6_NameFromDirectoryOnly ==
  \A i \in 1..Len(out) :
    /\ conv # "iconfont" => out[i].file = FixedName
    /\ conv = "iconfont" =>
         /\ out[i].file = ToText(ScanDir(dirListing)) \o IjmapExt
         /\ ((\A k \in 1..Len(dirListing) : ~HasTtfExt(dirListing[k]))
               => out[i].file = NullText \o IjmapExt)

C6_Witness ==
  /\ conv = "iconfont"
  /\ Len(out) = 1
  /\ out[1].file \notin {FixedName, NullText \o IjmapExt}
  /\ Len(codepoints) = MaxLines

(***************************************************************************)
(* C7: a second run of the same program on the same files leaves the same  *)
(* documents under the same names as the run before it.                    *)
(***************************************************************************)
C7_RerunSameOutput ==
  (run > 1 /\ RunEnded) => out = prevOut

C7_Witness ==
  /\ run > 1 /\ RunEnded
  /\ Len(out) = 1
  /\ EntryCount(out[1].data) = 2

(***************************************************************************)
(* C8: in the two scripts the file is written in the 'close' handler,      *)
(* after every line of the input has been handled; the document holds the  *)
(* key of every handled line, and no line is handled after the write.      *)
(***************************************************************************)
LineKey(line) ==
  IF conv = "iconfont"
    THEN LineMatch(line).g2
    ELSE ElementText(Split(line, " "), 2)

C8_WrittenAtClose ==
  (conv \in Scripts /\ out # <<>>)
  => /\ pc = "closed"
     /\ pos = Len(codepoints)
     /\ Len(out) = 1
     /\ \A i \in 1..pos :
          Quote(LineKey(codepoints[i])) \in Range(DocKeys(out[1].data))

C8_NoLineAfterWrite ==
  [][(conv \in Scripts /\ out # <<>> /\ run' = run)
       => (pos' = pos /\ json' = json /\ out' = out)]_vars

C8_WriteAfterWholeInput ==
  []C8_WrittenAtClose /\ C8_NoLineAfterWrite

C8_Witness ==
  /\ conv \in Scripts
  /\ Len(out) = 1
  /\ pos = MaxLines
  /\ EntryCount(out[1].data) = 2

(***************************************************************************)
(* C9: a malformed line (not empty, no whitespace followed by a            *)
(* hexadecimal codepoint) aborts the run, and no document is written.      *)
(***************************************************************************)
Malformed(line) ==
  /\ line # <<>>
  /\ ~\E i \in 1..(Len(line) - 1) : IsSpace(line[i]) /\ IsHex(line[i + 1])

C9_MalformedLineAborts ==
  (ConverterRun /\ RunEnded
     /\ \E i \in 1..Len(codepoints) : Malformed(codepoints[i]))
  => (pc = "crashed" /\ out = <<>>)

(***************************************************************************)
(* C10: 'png-sprites' calls sprity.src exactly once for every pair of      *)
(* ICON_CATEGORIES x PNG_COLORS and for nothing else; 'svg-sprites' calls  *)
(* the svg sprite routine exactly once for every category.                 *)
(***************************************************************************)
CountWhere(calls, P(_)) ==
  Cardinality({i \in 1..Len(calls) : P(calls[i])})

C10_OneCallPerPair ==
  /\ "png-sprites" \in started =>
       /\ \A c \in Range(ICON_CATEGORIES) : \A k \in Range(PNG_COLORS) :
            CountWhere(sprityCalls,
                       LAMBDA o : o.src = <<"./", c, "/1x_web/*_", k,
                                            "_24dp.png">>) = 1
       /\ Len(sprityCalls)
            = Cardinality(Range(ICON_CATEGORIES) \X Range(PNG_COLORS))
  /\ "png-sprites" \notin started => sprityCalls = <<>>
  /\ "svg-sprites" \in started =>
       /\ \A c \in Range(ICON_CATEGORIES) :
            CountWhere(svgCalls,
                       LAMBDA o : o.src = <<"./", c,
                                            "/svg/production/*_24px.svg">>
                                  /\ o.config = getSvgSpriteConfig(c)) = 1
       /\ Len(svgCalls) = Cardinality(Range(ICON_CATEGORIES))
  /\ "svg-sprites" \notin started => svgCalls = <<>>

C10_Witness ==
  /\ target = "default"
  /\ {"png-sprites", "svg-sprites"} \subseteq started
  /\ sprityCalls # <<>> /\ svgCalls # <<>>

(***************************************************************************)
(* C11: in a sprite task every file a source stream has emitted is in the  *)
(* merged stream or has reached the writer of the one destination, once    *)
(* and in the order its source emitted it; the merged stream ends only     *)
(* after every source has ended, and by then the writer has every file.    *)
(***************************************************************************)
EmittedFiles ==
  {f \in [source : BusySources, n : 1..MaxFiles] : f.n <= srcEmitted[f.source]}

InOrder(files) ==
  \A i, j \in 1..Len(files) :
    (i < j /\ files[i].source = files[j].source) => files[i].n < files[j].n

\* the files handed to the writer, followed by those still buffered
Delivered ==
  [i \in 1..Len(destFiles) |-> destFiles[i].file] \o merged

C11_MergedDelivery ==
  /\ Range(Delivered) = EmittedFiles
  /\ Len(Delivered) = Cardinality(EmittedFiles)
  /\ InOrder(Delivered)
  /\ \A i \in 1..Len(destFiles) :
       destFiles[i].dest = (IF "png-sprites" \in started
                              THEN "./sprites/css-sprite/"
                              ELSE "./sprites/svg-sprite")
  /\ mergedState # "open" =>
       (srcEnded = BusySources /\ idleEnded = Len(SourceCalls) - MaxBusySources)
  /\ mergedState = "ended" =>
       (merged = <<>> /\ Len(destFiles) = Cardinality(EmittedFiles))

C11_Witness ==
  /\ mergedState = "ended"
  /\ Len(destFiles) = MaxBusySources * MaxFiles
  /\ destFiles[1].file.source = 2
  /\ destFiles[2].file.source = 1

(***************************************************************************)
(* C12: a run of 'default' calls the function of each of 'png-sprites',    *)
(* 'svg-sprites' and 'iconjar' once and no more; 'default' completes only  *)
(* when each of the three has run once and has completed, whatever the     *)
(* order in which they complete.                                           *)
(***************************************************************************)
DefaultDeps ==
  {"png-sprites", "svg-sprites", "iconjar"}

C12_OnceEachThenDefault ==
  /\ \A t \in GulpTargets : taskRuns[t] <= 1
  /\ \A i, j \in 1..Len(finished) : i # j => finished[i] # finished[j]
  /\ \A i \in 1..Len(finished) : taskRuns[finished[i]] = 1
  /\ \A i \in 1..Len(finished) :
       finished[i] = "default" =>
         /\ i = Len(finished)
         /\ {finished[k] : k \in 1..(i - 1)} = DefaultDeps
  /\ pc = "done" => \A t \in DefaultDeps \cup {"default"} : taskRuns[t] = 1

C12_Witness ==
  /\ finished = <<"iconjar", "svg-sprites", "png-sprites", "default">>
  /\ Len(codepoints) = MaxLines

(***************************************************************************)
(* C13: for every category the svg sprite routine is asked for a symbol    *)
(* sprite and a symbol example named as the sprite and the example of the  *)
(* css mode with "-symbol" put between the name and the extension          *)
(* (svg-sprite-<c>.svg, svg-sprite-<c>-symbol.svg), and both modes write   *)
(* to the same directory under the one destination of the task.            *)
(***************************************************************************)
SymbolMarker ==
  <<"-", "s", "y", "m", "b", "o", "l">>

\* the file name with the marker put in front of its extension
WithMarker(file) ==
  SubSeq(file, 1, Len(file) - Len(ExtName(file)))
    \o SymbolMarker \o ExtName(file)

CssSpriteName(c) ==
  <<"s", "v", "g", "-", "s", "p", "r", "i", "t", "e", "-">> \o Chars(c) \o <<".", "s", "v", "g">>

SymbolSpriteName(c) ==
  <<"s", "v", "g", "-", "s", "p", "r", "i", "t", "e", "-">> \o Chars(c)
    \o <<"-", "s", "y", "m", "b", "o", "l", ".", "s", "v", "g">>

\* the names in the calls the task makes
SymbolNamesMarked ==
  \A c \in Range(ICON_CATEGORIES) :
    \E i \in 1..Len(SvgSpriteCalls) :
      LET css == SvgSpriteCalls[i].config.css
          symbol == SvgSpriteCalls[i].config.symbol
      IN  /\ Basename(TemplateText(css.sprite)) = CssSpriteName(c)
          /\ Basename(TemplateText(symbol.sprite)) = SymbolSpriteName(c)
          /\ TemplateText(symbol.sprite)
               = WithMarker(TemplateText(css.sprite))
          /\ TemplateText(symbol.example)
               = WithMarker(TemplateText(css.example))
          /\ ExtName(TemplateText(css.sprite)) = <<".", "s", "v", "g">>
          /\ ExtName(TemplateText(css.example)) = <<".", "h", "t", "m", "l">>
          /\ symbol.dest = css.dest

C13_SymbolMarker ==
  "svg-sprites" \in started =>
    /\ svgCalls = SvgSpriteCalls
    /\ SymbolNamesMarked
    /\ TaskDest("svg-sprites") = "./sprites/svg-sprite"

C13_Witness ==
  /\ "svg-sprites" \in started
  /\ Len(svgCalls) = Len(ICON_CATEGORIES)
  /\ TemplateText(svgCalls[3].config.symbol.sprite)
       = <<".", "/", "s", "v", "g", "-", "s", "p", "r", "i", "t", "e", "-", "a",
         "v", "-", "s", "y", "m", "b", "o", "l", ".", "s", "v", "g">>

(***************************************************************************)
(* C14: the stylesheet asked of the PNG routine for a pair is              *)
(* sprite-<c>-<k>.css and the stylesheet asked of the css mode for a       *)
(* category is svg-sprite-<c>.css, in the directories css-sprite and       *)
(* svg-sprite; sprite-av-black.css and svg-sprite-av.css, which the        *)
(* documentation refers to, are among them.                                *)
(***************************************************************************)
\* the last segment of a directory path
LastSegment(dir) ==
  Basename(IF dir # <<>> /\ dir[Len(dir)] = "/"
             THEN SubSeq(dir, 1, Len(dir) - 1)
             ELSE dir)

PngStyleName(c, k) ==
  <<"s", "p", "r", "i", "t", "e", "-">> \o Chars(c) \o <<"-">> \o Chars(k)
    \o <<".", "c", "s", "s">>

SvgStyleName(c) ==
  <<"s", "v", "g", "-", "s", "p", "r", "i", "t", "e", "-">> \o Chars(c)
    \o <<".", "c", "s", "s">>

\* the stylesheets in the calls 'png-sprites' makes
PngStylesheetsNamed ==
  /\ \A c \in Range(ICON_CATEGORIES) : \A k \in Range(PNG_COLORS) :
       \E i \in 1..Len(PngSpriteCalls) :
         /\ PngSpriteCalls[i].src = <<"./", c, "/1x_web/*_", k, "_24dp.png">>
         /\ TemplateText(PngSpriteCalls[i].style) = PngStyleName(c, k)
  /\ \E i \in 1..Len(PngSpriteCalls) :
       TemplateText(PngSpriteCalls[i].style)
         = <<"s", "p", "r", "i", "t", "e", "-", "a", "v", "-", "b", "l", "a",
             "c", "k", ".", "c", "s", "s">>
  /\ LastSegment(Chars(TaskDest("png-sprites")))
       = <<"c", "s", "s", "-", "s", "p", "r", "i", "t", "e">>

\* the stylesheets in the calls 'svg-sprites' makes
SvgStylesheetsNamed ==
  /\ \A c \in Range(ICON_CATEGORIES) :
       \E i \in 1..Len(SvgSpriteCalls) :
         /\ SvgSpriteCalls[i].src = <<"./", c, "/svg/production/*_24px.svg">>
         /\ Basename(TemplateText(SvgSpriteCalls[i].config.css.render))
              = SvgStyleName(c)
  /\ \E i \in 1..Len(SvgSpriteCalls) :
       Basename(TemplateText(SvgSpriteCalls[i].config.css.render))
         = <<"s", "v", "g", "-", "s", "p", "r", "i", "t", "e", "-", "a", "v",
             ".", "c", "s", "s">>
  /\ LastSegment(Chars(TaskDest("svg-sprites")))
       = <<"s", "v", "g", "-", "s", "p", "r", "i", "t", "e">>

Attributes(p) ==
  DOMAIN p \ {"children"}

C15_PropsOverrideDefaults ==
  rendered # NotRendered =>
    /\ rendered.kind = "element" /\ rendered.type = "svg"
    /\ "width" \notin DOMAIN props => rendered.props["width"] = Num("24")
    /\ "height" \notin DOMAIN props => rendered.props["height"] = Num("24")
    /\ "viewBox" \notin DOMAIN props
         => rendered.props["viewBox"] = Text("0 0 24 24")
    /\ \A a \in Attributes(props) :
         a \in DOMAIN rendered.props /\ rendered.props[a] = props[a]
    /\ Attributes(rendered.props)
         = Attributes(props) \cup {"width", "height", "viewBox"}

C15_Witness ==
  /\ rendered # NotRendered
  /\ DOMAIN props = {"width", "viewBox", "fill"}
  /\ rendered.props["width"] = Num("48")
  /\ rendered.props["height"] = Num("24")
  /\ rendered.props["fill"] = Undefined

(***************************************************************************)
(* C16: every display name the two scripts store, whatever the identifier  *)
(* begins with, ends with or contains, has no space at its start, no space *)
(* at its end and no two spaces next to each other.                        *)
(***************************************************************************)
\* the display names in the mapping of the script
StoredNames ==
  LET icons == Get(json, IconsKey).props
  IN  {Get(icons[i].value, <<"n", "a", "m", "e">>).chars : i \in 1..Len(icons)}

NoStraySpace(s) ==
  /\ s # <<>> => (s[1] # " " /\ s[Len(s)] # " ")
  /\ \A i \in 1..(Len(s) - 1) : ~(s[i] = " " /\ s[i + 1] = " ")

C16_NoStraySpaces ==
  conv \in Scripts => \A n \in StoredNames : NoStraySpace(n)

(***************************************************************************)
(* C17: when every line of the file is an identifier, a non-empty run of   *)
(* spaces and tabs, and a hexadecimal codepoint, the keys of the document  *)
(* a converter writes are exactly the codepoints of the lines.             *)
(***************************************************************************)
\* the length of the longest prefix of s from position i on whose characters
\* all satisfy P
RunLength(s, i, P(_)) ==
  CHOOSE n \in 0..(Len(s) - i + 1) :
    /\ \A k \in i..(i + n - 1) : P(s[k])
    /\ (i + n = Len(s) + 1 \/ ~P(s[i + n]))

IsBlank(c) ==
  c \in {" ", "\t"}

IdentifierLength(line) ==
  RunLength(line, 1, IsWord)

SeparatorLength(line) ==
  RunLength(line, IdentifierLength(line) + 1, IsBlank)

\* the text after the identifier and the separator
AfterSeparator(line) ==
  SubSeq(line, IdentifierLength(line) + SeparatorLength(line) + 1, Len(line))

WhitespaceSeparated(line) ==
  /\ IdentifierLength(line) > 0
  /\ SeparatorLength(line) > 0
  /\ AfterSeparator(line) # <<>>
  /\ \A i \in 1..Len(AfterSeparator(line)) : IsHex(AfterSeparator(line)[i])

C17_KeyIsHexToken ==
  (ConverterRun /\ RunEnded /\ codepoints # <<>>
     /\ \A i \in 1..Len(codepoints) : WhitespaceSeparated(codepoints[i]))
  => /\ Len(out) = 1
     /\ Range(DocKeys(out[1].data))
          = {Quote(AfterSeparator(codepoints[i])) : i \in 1..Len(codepoints)}

(***************************************************************************)
(* C18: when no two lines of the file give the same key, the mapping a     *)
(* converter writes is the union of the entries it makes of each line      *)
(* alone; so it is the mapping the converter makes of every permutation of *)
(* the lines, and the mapping it makes of the file without one line is the *)
(* same mapping without the entry of that line.                            *)
(***************************************************************************)
\* the object a script has built after the lines, starting from j
RECURSIVE ScriptLines(_, _, _)
ScriptLines(c, lines, j) ==
  IF lines = <<>> THEN j
  ELSE ScriptLines(c, Tail(lines),
                   IF c = "iconfont" THEN IconfontLine(j, Head(lines))
                                     ELSE SketchLine(j, Head(lines)))

\* the document the converter c makes of a file none of whose lines makes
\* it throw
Converted(c, file) ==
  Stringify(IF c = "gulp" THEN GulpIjmap(FileText(file))
                          ELSE ScriptLines(c, file, EmptyJson))

\* the entries of a document, as a set of pairs of key and name
Mapping(doc) ==
  {<<DocKey(doc, i), DocName(doc, i)>> : i \in 1..EntryCount(doc)}

\* the entries the converter makes of one line alone
LineEntries(c, line) ==
  Mapping(Converted(c, <<line>>))

NoLineThrows(c, file) ==
  c = "iconfont" => \A i \in 1..Len(file) : ~IconfontLineThrows(file[i])

DistinctKeys(c, file) ==
  LET keys == [i \in 1..Len(file) |-> {e[1] : e \in LineEntries(c, file[i])}]
  IN  \A i, k \in 1..Len(file) : i # k => keys[i] \cap keys[k] = {}

LineOrders(n) ==
  {f \in [1..n -> 1..n] : \A i, k \in 1..n : f[i] = f[k] => i = k}

WithoutLine(file, i) ==
  SubSeq(file, 1, i - 1) \o SubSeq(file, i + 1, Len(file))

C18_LineByLine ==
  (ConverterRun /\ RunEnded /\ NoLineThrows(conv, codepoints)
     /\ DistinctKeys(conv, codepoints))
  => /\ Len(out) = 1
     /\ LET written == Mapping(out[1].data)
            n == Len(codepoints)
        IN  /\ written = UNION {LineEntries(conv, codepoints[i]) : i \in 1..n}
            /\ \A f \in LineOrders(n) :
                 Mapping(Converted(conv, [i \in 1..n |-> codepoints[f[i]]]))
                   = written
            /\ \A i \in 1..n :
                 Mapping(Converted(conv, WithoutLine(codepoints, i)))
                   = written \ LineEntries(conv, codepoints[i])

C18_Witness ==
  /\ ConverterRun /\ RunEnded
  /\ Len(codepoints) = MaxLines
  /\ NoLineThrows(conv, codepoints)
  /\ DistinctKeys(conv, codepoints)
  /\ Len(out) = 1
  /\ EntryCount(out[1].data) = MaxLines
  /\ codepoints[1] # <<"b", " ", "7">>
  /\ codepoints[Len(codepoints)] = <<"b", " ", "7">>

(***************************************************************************)
(* C19: when a script has handled a line "<identifier> <hex>" whose        *)
(* identifier has a digit, the name it has stored for the line has the     *)
(* digits of the identifier, all of them and in their order, in the script *)
(* of sketch/README.md, and has no digit in iconjar-map.js.                *)
(***************************************************************************)
\* the line the script has handled last
LastLine ==
  codepoints[pos]

DigitsOf(s) ==
  SelectSeq(s, LAMBDA c : c \in Digit)

\* the display name stored under the key
StoredName(key) ==
  Get(Get(Get(json, IconsKey), key), <<"n", "a", "m", "e">>).chars

C19_DigitsKeptOrDropped ==
  (conv \in Scripts /\ pos > 0 /\ WellFormed(LastLine)
     /\ DigitsOf(NameToken(LastLine)) # <<>>)
  => /\ HasProperty(Get(json, IconsKey), HexToken(LastLine))
     /\ conv = "sketch" =>
          DigitsOf(StoredName(HexToken(LastLine)))
            = DigitsOf(NameToken(LastLine))
     /\ conv = "iconfont" =>
          DigitsOf(StoredName(HexToken(LastLine))) = <<>>

C19_Witness ==
  /\ conv = "sketch"
  /\ pos = MaxLines
  /\ WellFormed(LastLine)
  /\ DigitsOf(NameToken(LastLine)) = <<"3">>
  /\ StoredName(HexToken(LastLine)) = <<"3", "d">>

(***************************************************************************)
(* C20: when a script has handled a line made of an identifier of          *)
(* lowercase letters and underscores, one space and a hexadecimal          *)
(* codepoint, the entry it has stored is the one either script computes    *)
(* for the line: the same key and the same display name.                   *)
(***************************************************************************)
LowercaseIdentifier(id) ==
  \A i \in 1..Len(id) : id[i] \in Lower \cup {"_"}

C20_ScriptsAgree ==
  (conv \in Scripts /\ pos > 0 /\ WellFormed(LastLine)
     /\ LowercaseIdentifier(NameToken(LastLine)))
  => /\ LineMatch(LastLine).found
     /\ LineMatch(LastLine).g2 = ElementText(Split(LastLine, " "), 2)
     /\ HasProperty(Get(json, IconsKey), LineMatch(LastLine).g2)
     /\ StoredName(LineMatch(LastLine).g2)
          = IconfontName(LineMatch(LastLine).g1)
     /\ StoredName(LineMatch(LastLine).g2)
          = SketchName(Split(LastLine, " ")[1])

(***************************************************************************)
(* C21: the document a converter writes has one entry for each key its     *)
(* lines give, however many lines give it, and the entry of a key is the   *)
(* one made of the last line that gives the key.                           *)
(***************************************************************************)
\* the keys of the entries the converter makes of the line alone
KeysOfLine(c, line) ==
  {e[1] : e \in LineEntries(c, line)}

\* no line after line i gives a key that line i gives
LastOfItsKey(c, file, i) ==
  \A k \in (i + 1)..Len(file) :
    KeysOfLine(c, file[i]) \cap KeysOfLine(c, file[k]) = {}

C21_LastLineWins ==
  (ConverterRun /\ RunEnded /\ NoLineThrows(conv, codepoints))
  => /\ Len(out) = 1
     /\ EntryCount(out[1].data)
          = Cardinality(UNION {KeysOfLine(conv, codepoints[i]) :
                                 i \in 1..Len(codepoints)})
     /\ EntryCount(out[1].data) <= Len(codepoints)
     /\ \A i \in 1..Len(codepoints) :
          LastOfItsKey(conv, codepoints, i)
            => LineEntries(conv, codepoints[i]) \subseteq Mapping(out[1].data)

C21_Witness ==
  /\ ConverterRun /\ RunEnded
  /\ codepoints = <<<<"i", "c", "_", "p", "l", "a", "y", "_", "a", "r", "r",
                      "o", "w", " ", "e", "0", "3", "7">>,
                    <<"c", " ", "e", "0", "3", "7">>>>
  /\ Len(out) = 1
  /\ Mapping(out[1].data) = LineEntries(conv, codepoints[2])

(***************************************************************************)
(* C22: in iconjar-map.js no 'line' event changes the outer variable       *)
(* 'name': once the directory has been scanned it is the name the scan     *)
(* chose, whatever lines have been handled, and the file written at        *)
(* 'close' is that name followed by '.ijmap'.                              *)
(***************************************************************************)
C22_NameIsTheScannedName ==
  (conv = "iconfont" /\ pc # "start")
  => /\ name = ScanDir(dirListing)
     /\ \A i \in 1..Len(out) : out[i].file = ToText(ScanDir(dirListing)) \o IjmapExt

C22_NoLineChangesName ==
  [][(conv = "iconfont" /\ pos' = pos + 1) => name' = name]_vars

C22_NameKeptThroughLines ==
  []C22_NameIsTheScannedName /\ C22_NoLineChangesName

C22_Witness ==
  /\ conv = "iconfont"
  /\ pc = "closed"
  /\ pos = MaxLines
  /\ name = Str(<<"a">>)
  /\ Len(out) = 1
  /\ EntryCount(out[1].data) = MaxLines

(***************************************************************************)
(* C23: in iconjar-map.js, when the directory has an entry with the        *)
(* extension '.ttf', the outer name is the first such entry without its    *)
(* extension, whatever entries follow it, and the file written is that     *)
(* name followed by '.ijmap'.                                              *)
(***************************************************************************)
TtfEntries(listing) ==
  {i \in 1..Len(listing) : ExtName(listing[i]) = TtfExt}

FirstTtf(listing) ==
  SetMin(TtfEntries(listing))

\* the file name without its extension
WithoutExtension(f) ==
  SubSeq(f, 1, Len(f) - Len(ExtName(f)))

C24_NoTtfWritesNull ==
  (conv = "iconfont" /\ TtfEntries(dirListing) = {})
  => /\ name = Null
     /\ pc = "crashed" => IconfontLineThrows(codepoints[pos])
     /\ \A i \in 1..Len(out) : out[i].file = NullText \o IjmapExt
     /\ pc = "closed" =>
          (Len(out) = 1 /\ out[1].data = Stringify(json)
             /\ NullText \o IjmapExt \in DOMAIN fs)

C24_Witness ==
  /\ conv = "iconfont"
  /\ pc = "closed"
  /\ dirListing = <<<<"b", ".", "T", "T", "F">>, CodepointsName,
                    NullText \o IjmapExt>>
  /\ Len(out) = 1
  /\ EntryCount(out[1].data) = 1

(***************************************************************************)
(* C25: the file names the two sprite tasks ask for are pairwise distinct: *)
(* the image and the stylesheet of every pair of category and colour in    *)
(* the one directory of 'png-sprites', and the sprite, stylesheet and      *)
(* example of the css mode and the sprite and example of the symbol mode   *)
(* of every category in the one directory of 'svg-sprites'.                *)
(***************************************************************************)
\* the files asked of sprity: '<name>.png' and the stylesheet of every call
PngOutputNames ==
  [i \in 1..Len(PngSpriteCalls) |->
     <<TemplateText(PngSpriteCalls[i].name) \o <<".", "p", "n", "g">>,
       TemplateText(PngSpriteCalls[i].style)>>]

\* the files asked of the svg sprite routine, both modes, for every call
SvgOutputNames ==
  [i \in 1..Len(SvgSpriteCalls) |->
     LET mode == SvgSpriteCalls[i].config
     IN  <<Basename(TemplateText(mode.css.sprite)),
           Basename(TemplateText(mode.css.example)),
           Basename(TemplateText(mode.css.render)),
           Basename(TemplateText(mode.symbol.sprite)),
           Basename(TemplateText(mode.symbol.example))>>]

\* no name occurs twice in the lists of names
PairwiseDistinct(lists) ==
  \A i, k \in 1..Len(lists) :
    \A a \in 1..Len(lists[i]) : \A b \in 1..Len(lists[k]) :
      lists[i][a] = lists[k][b] => (i = k /\ a = b)

PngNamesDistinct ==
  PairwiseDistinct(PngOutputNames)

SvgNamesDistinct ==
  /\ PairwiseDistinct(SvgOutputNames)
  /\ \A i \in 1..Len(SvgSpriteCalls) :
       SvgSpriteCalls[i].config.css.dest = SvgSpriteCalls[i].config.symbol.dest

C25_OutputNamesDistinct ==
  /\ "png-sprites" \in started =>
       /\ sprityCalls = PngSpriteCalls
       /\ Len(sprityCalls) = Len(ICON_CATEGORIES) * Len(PNG_COLORS)
       /\ PngNamesDistinct
  /\ "svg-sprites" \in started =>
       /\ svgCalls = SvgSpriteCalls
       /\ Len(svgCalls) = Len(ICON_CATEGORIES)
       /\ SvgNamesDistinct

C25_Witness ==
  /\ target = "default"
  /\ started = {"png-sprites", "svg-sprites", "iconjar"}
  /\ sprityCalls # <<>> /\ svgCalls # <<>>
  /\ pc = "done"

(***************************************************************************)
(* C26: a run of one of the two scripts on a file of well-formed lines     *)
(* reaches 'close' and writes its file; a run writes at most once, and     *)
(* what it has written it does not write again.                            *)
(***************************************************************************)
C26_AtMostOneWrite ==
  conv \in Scripts => (Len(out) <= 1 /\ (pc = "closed" <=> Len(out) = 1))

C26_WrittenFileStays ==
  [][(conv \in Scripts /\ out # <<>>) => out' = out]_vars

C26_Written ==
  conv \in Scripts /\ pc = "closed" /\ pos = Len(codepoints) /\ Len(out) = 1

C26_WritesOnce ==
  /\ []C26_AtMostOneWrite
  /\ C26_WrittenFileStays
  /\ (AllWellFormed(codepoints) ~> C26_Written)

C26_Witness ==
  /\ C26_Written
  /\ AllWellFormed(codepoints)
  /\ Len(codepoints) = MaxLines
  /\ EntryCount(out[1].data) = 1

(***************************************************************************)
(* C27: whatever props an icon component is given, a 'children' or a 'd'   *)
(* attribute included, the element it returns has one child, the path      *)
(* element with the path data the component was written with.              *)
(***************************************************************************)
PathElement(c) ==
  [kind |-> "element",
   type |-> "path",
   key |-> Undefined,
   ref |-> Undefined,
   props |-> [k \in {"d"} |-> Text(PathData(c))]]

====
